---- MODULE Spec2Model ----
(***************************************************************************)
(* A model of isolang.py: the LangDb mapping (a dict subclass that         *)
(* resolves ISO 639-1 codes to language names), its helper primary(), and  *)
(* the embedded registry langs.                                            *)
(*                                                                         *)
(* Python objects are written as tagged records.  Strings, tuples and None *)
(* are immutable and are written by value.  A list that is stored in a     *)
(* dataset is mutable and may be shared, so it is written as a reference   *)
(* into the variable heap.  Non-ASCII characters of string literals, and  *)
(* the backquote, are written in Python's escape notation.                *)
(***************************************************************************)
EXTENDS Integers, Sequences, FiniteSets, TLC

VARIABLES db, iterorder, heap, built, copy, call, ret

vars == <<db, iterorder, heap, built, copy, call, ret>>

(***************************************************************************)
(* Bounds                                                                  *)
(***************************************************************************)
\* the largest number of alternative names of one name field of a generated
\* dataset
MaxNames == 2

(***************************************************************************)
(* Python values                                                           *)
(***************************************************************************)
None == [t |-> "None", s |-> "", items |-> <<>>, ref |-> 0]

Str(s) == [t |-> "str", s |-> s, items |-> <<>>, ref |-> 0]

Bool(b) == [t |-> "bool", s |-> IF b THEN "True" ELSE "False", items |-> <<>>, ref |-> 0]

Tuple(xs) == [t |-> "tuple", s |-> "", items |-> xs, ref |-> 0]

\* a list object stored in a dataset: a reference to heap[r]
List(r) == [t |-> "list", s |-> "", items |-> <<>>, ref |-> r]

\* a freshly built list or a fully consumed iterator, which nothing else
\* references
Fresh(xs) == [t |-> "seq", s |-> "", items |-> xs, ref |-> 0]

\* the outcome of a call: a returned value or a raised exception
Return(v) == [kind |-> "return", exc |-> "", val |-> v]

Raise(e, v) == [kind |-> "raise", exc |-> e, val |-> v]

\* the elements of a Python sequence, an unshared list included
Elems(v, h) ==
    IF v.t = "list" THEN h[v.ref]
    ELSE IF v.t = "str" THEN [i \in 1..Len(v.s) |-> Str(SubSeq(v.s, i, i))]
    ELSE v.items

\* v[i] for a 0-based index i
Subscript(v, h, i) ==
    IF v.t \in {"None", "bool"} THEN Raise("TypeError", None)
    ELSE IF i + 1 \in 1..Len(Elems(v, h)) THEN Return(Elems(v, h)[i + 1])
    ELSE Raise("IndexError", None)

\* the tuple assignment  a, b = v
Unpack2(v, h) ==
    IF v.t \in {"None", "bool"} THEN [exc |-> "TypeError", a |-> None, b |-> None]
    ELSE IF Len(Elems(v, h)) # 2 THEN [exc |-> "ValueError", a |-> None, b |-> None]
    ELSE [exc |-> "", a |-> Elems(v, h)[1], b |-> Elems(v, h)[2]]

\* the value with every list reference replaced by the list's contents
RECURSIVE Deep(_, _)
Deep(v, h) ==
    IF v.t = "list"
    THEN [t |-> "list", s |-> "", ref |-> 0,
          items |-> [i \in 1..Len(h[v.ref]) |-> Deep(h[v.ref][i], h)]]
    ELSE [v EXCEPT !.items = [i \in 1..Len(v.items) |-> Deep(v.items[i], h)]]

DeepOutcome(o, h) == [o EXCEPT !.val = Deep(o.val, h)]

(***************************************************************************)
(* primary() and the methods of LangDb, as functions of the dict contents  *)
(* d and the heap h                                                        *)
(***************************************************************************)
ENGLISH == 0

NATIVE == 1

primary(names, h) ==
    IF names.t = "str" THEN Return(names) ELSE Subscript(names, h, 0)

\* dict.__getitem__, as called through super()
dict_getitem(d, key) ==
    IF key \in DOMAIN d THEN Return(d[key]) ELSE Raise("KeyError", Str(key))

\* dict.get, as called through super()
dict_get(d, key, default) ==
    IF key \in DOMAIN d THEN d[key] ELSE default

__getitem__(d, h, key) ==
    LET value == dict_getitem(d, key)
        u == Unpack2(value.val, h)
    IN  IF value.kind = "raise" THEN value
        ELSE IF u.exc # "" THEN Raise(u.exc, None)
        ELSE IF u.b.t = "str" THEN Return(u.b)
        ELSE Subscript(u.b, h, 0)

get(d, h, key, default) ==
    LET value == dict_get(d, key, default)
        u == Unpack2(value, h)
        p == primary(u.b, h)
    IN  IF u.exc = "TypeError" THEN Return(value)
        ELSE IF u.exc # "" THEN Raise(u.exc, None)
        ELSE IF p.kind = "raise" /\ p.exc = "TypeError" THEN Return(value)
        ELSE p

\* _some_name reading the dict with get() and without the test for None
_some_name_via_get(d, h, code, which, all_names) ==
    LET name == Subscript(dict_get(d, code, None), h, which)
    IN  IF name.kind = "raise" THEN name
        ELSE IF ~all_names THEN primary(name.val, h)
        ELSE IF name.val.t = "tuple" THEN Return(name.val)
        ELSE Return(Tuple(<<name.val>>))

_some_name(d, h, code, which, all_names) ==
    LET value == dict_getitem(d, code)
        name == Subscript(value.val, h, which)
    IN  IF value.kind = "raise" THEN value
        ELSE IF value.val.t = "None" THEN Raise("KeyError", Str(code))
        ELSE IF name.kind = "raise" THEN name
        ELSE IF ~all_names THEN primary(name.val, h)
        ELSE IF name.val.t = "tuple" THEN Return(name.val)
        ELSE Return(Tuple(<<name.val>>))

native_name(d, h, code, all_names) == _some_name(d, h, code, NATIVE, all_names)

english_name(d, h, code, all_names) == _some_name(d, h, code, ENGLISH, all_names)

contains(d, key) == Return(Bool(key \in DOMAIN d))

\* the orders in which a dict with key set S may enumerate its keys
Orders(S) ==
    {o \in [1..Cardinality(S) -> S] : \A i, j \in DOMAIN o : i # j => o[i] # o[j]}

\* the result of running an iteration to its end: the values yielded, or the
\* first exception raised on the way
Consume(outs) ==
    IF \E i \in DOMAIN outs : outs[i].kind = "raise"
    THEN outs[CHOOSE i \in DOMAIN outs :
                 /\ outs[i].kind = "raise"
                 /\ \A j \in 1..(i - 1) : outs[j].kind = "return"]
    ELSE Return(Fresh([i \in DOMAIN outs |-> outs[i].val]))

\* one step of  for code, (english, native) in super().iteritems():
\*                  yield code, primary(name)
PairOf(d, h, code, which) ==
    LET u == Unpack2(d[code], h)
        p == primary(IF which = ENGLISH THEN u.a ELSE u.b, h)
    IN  IF u.exc # "" THEN Raise(u.exc, None)
        ELSE IF p.kind = "raise" THEN p
        ELSE Return(Tuple(<<Str(code), p.val>>))

iteritems(d, h, order) ==
    Consume([i \in DOMAIN order |-> PairOf(d, h, order[i], NATIVE)])

items(d, h, order) == iteritems(d, h, order)

\* itervalues left as dict defines it: the stored values themselves
itervalues_inherited(d, h, order) ==
    Return(Fresh([i \in DOMAIN order |-> d[order[i]]]))

itervalues(d, h, order) ==
    Consume([i \in DOMAIN order |->
               LET u == Unpack2(d[order[i]], h)
               IN  IF u.exc # "" THEN Raise(u.exc, None) ELSE primary(u.b, h)])

values(d, h, order) == itervalues(d, h, order)

\* codes enumerating the dict's values instead of its keys
codes_itervalues(d, h, order) == itervalues(d, h, order)

\* dict.iterkeys
codes(d, h, order) == Return(Fresh([i \in DOMAIN order |-> Str(order[i])]))

names(d, h, order) == itervalues(d, h, order)

native_names(d, h, order) ==
    Consume([i \in DOMAIN order |-> PairOf(d, h, order[i], NATIVE)])

english_names(d, h, order) ==
    Consume([i \in DOMAIN order |-> PairOf(d, h, order[i], ENGLISH)])

\* dict(super().iteritems()): a new dict holding the same value objects
raw_data(d) == [code \in DOMAIN d |-> d[code]]

__repr__(d) == Return(Str("<LangDb: " \o ToString(Cardinality(DOMAIN d)) \o " langs>"))

(***************************************************************************)
(* Datasets                                                                *)
(***************************************************************************)
\* the dict display  {k1: v1, k2: v2, ...}  given as its entries in source
\* order: a key written twice keeps the value written last
DictOf(entries) ==
    [k \in {entries[i][1] : i \in DOMAIN entries} |->
        entries[CHOOSE i \in DOMAIN entries :
                   /\ entries[i][1] = k
                   /\ \A j \in DOMAIN entries : entries[j][1] = k => j <= i][2]]

\* the dummy data of the class docstring
DoctestEntries ==
    << <<"en", Tuple(<<Str("English"), Str("English")>>)>>,
       <<"de", Tuple(<<Str("German"), Str("Deutsche")>>)>>,
       <<"fr", Tuple(<<Str("French"),
                       Tuple(<<Str("fran\\xe7ais"), Str("langue fran\\xe7aise")>>)>>)>>,
       <<"gd", Tuple(<<Tuple(<<Str("Scottish Gaelic"), Str(" Gaelic")>>),
                       Str("G\\xe0idhlig")>>)>> >>

\* the entries of the dict display the registry langs is built from
LangsEntries ==
    << <<"aa", Tuple(<<Str("Afar"), Str("Afaraf")>>)>>,
       <<"ab", Tuple(<<Str("Abkhaz"), Str("\\u0410\\u04a7\\u0441\\u0443\\u0430")>>)>>,
       <<"ae", Tuple(<<Str("Avestan"), Str("avesta")>>)>>,
       <<"af", Tuple(<<Str("Afrikaans"), Str("Afrikaans")>>)>>,
       <<"ak", Tuple(<<Str("Akan"), Str("Akan")>>)>>,
       <<"am", Tuple(<<Str("Amharic"), Str("\\u12a0\\u121b\\u122d\\u129b")>>)>>,
       <<"an", Tuple(<<Str("Aragonese"), Str("Aragon\\xe9s")>>)>>,
       <<"ar", Tuple(<<Str("Arabic"), Str("\\u0627\\u0644\\u0639\\u0631\\u0628\\u064a\\u0629")>>)>>,
       <<"as", Tuple(<<Str("Assamese"), Str("\\u0985\\u09b8\\u09ae\\u09c0\\u09af\\u09bc\\u09be")>>)>>,
       <<"av", Tuple(<<Str("Avaric"), Tuple(<<Str("\\u0430\\u0432\\u0430\\u0440 \\u043c\\u0430\\u0446\\u04c0"), Str("\\u043c\\u0430\\u0433\\u04c0\\u0430\\u0440\\u0443\\u043b \\u043c\\u0430\\u0446\\u04c0")>>)>>)>>,
       <<"ay", Tuple(<<Str("Aymara"), Str("aymar aru")>>)>>,
       <<"az", Tuple(<<Str("Azerbaijani"), Str("az\\u0259rbaycan dili")>>)>>,
       <<"ba", Tuple(<<Str("Bashkir"), Str("\\u0431\\u0430\\u0448\\u04a1\\u043e\\u0440\\u0442 \\u0442\\u0435\\u043b\\u0435")>>)>>,
       <<"be", Tuple(<<Str("Belarusian"), Str("\\u0411\\u0435\\u043b\\u0430\\u0440\\u0443\\u0441\\u043a\\u0430\\u044f")>>)>>,
       <<"bg", Tuple(<<Str("Bulgarian"), Str("\\u0431\\u044a\\u043b\\u0433\\u0430\\u0440\\u0441\\u043a\\u0438 \\u0435\\u0437\\u0438\\u043a")>>)>>,
       <<"bh", Tuple(<<Str("Bihari"), Str("\\u092d\\u094b\\u091c\\u092a\\u0941\\u0930\\u0940")>>)>>,
       <<"bi", Tuple(<<Str("Bislama"), Str("Bislama")>>)>>,
       <<"bm", Tuple(<<Str("Bambara"), Str("bamanankan")>>)>>,
       <<"bn", Tuple(<<Str("Bengali"), Str("\\u09ac\\u09be\\u0982\\u09b2\\u09be")>>)>>,
       <<"bo", Tuple(<<Tuple(<<Str("Tibetan Standard"), Str("Tibetan"), Str("Central")>>), Str("\\u0f56\\u0f7c\\u0f51\\u0f0b\\u0f61\\u0f72\\u0f42")>>)>>,
       <<"br", Tuple(<<Str("Breton"), Str("brezhoneg")>>)>>,
       <<"bs", Tuple(<<Str("Bosnian"), Str("bosanski jezik")>>)>>,
       <<"ca", Tuple(<<Tuple(<<Str("Catalan"), Str(" Valencian")>>), Str("Catal\\xe0")>>)>>,
       <<"ce", Tuple(<<Str("Chechen"), Str("\\u043d\\u043e\\u0445\\u0447\\u0438\\u0439\\u043d \\u043c\\u043e\\u0442\\u0442")>>)>>,
       <<"ch", Tuple(<<Str("Chamorro"), Str("Chamoru")>>)>>,
       <<"co", Tuple(<<Str("Corsican"), Tuple(<<Str("corsu"), Str("lingua corsa")>>)>>)>>,
       <<"cr", Tuple(<<Str("Cree"), Str("\\u14c0\\u1426\\u1403\\u152d\\u140d\\u140f\\u1423")>>)>>,
       <<"cs", Tuple(<<Str("Czech"), Tuple(<<Str("\\u010desky"), Str("\\u010de\\u0161tina")>>)>>)>>,
       <<"cu", Tuple(<<Tuple(<<Str("Old Church Slavonic"), Str("Church Slavic"), Str("Church Slavonic"), Str("Old Bulgarian"), Str("Old Slavonic")>>), Str("\\u0469\\u0437\\u044b\\u043a\\u044a \\u0441\\u043b\\u043e\\u0432\\u0463\\u043d\\u044c\\u0441\\u043a\\u044a")>>)>>,
       <<"cv", Tuple(<<Str("Chuvash"), Str("\\u0447\\u04d1\\u0432\\u0430\\u0448 \\u0447\\u04d7\\u043b\\u0445\\u0438")>>)>>,
       <<"cy", Tuple(<<Str("Welsh"), Str("Cymraeg")>>)>>,
       <<"da", Tuple(<<Str("Danish"), Str("dansk")>>)>>,
       <<"de", Tuple(<<Str("German"), Str("Deutsch")>>)>>,
       <<"dv", Tuple(<<Tuple(<<Str("Divehi"), Str(" Dhivehi"), Str(" Maldivian"), Str("")>>), Str("\\u078b\\u07a8\\u0788\\u07ac\\u0780\\u07a8")>>)>>,
       <<"dz", Tuple(<<Str("Dzongkha"), Str("\\u0f62\\u0fab\\u0f7c\\u0f44\\u0f0b\\u0f41")>>)>>,
       <<"ee", Tuple(<<Str("Ewe"), Str("E\\u028begbe")>>)>>,
       <<"el", Tuple(<<Str("Greek"), Str("\\u0395\\u03bb\\u03bb\\u03b7\\u03bd\\u03b9\\u03ba\\u03ac")>>)>>,
       <<"en", Tuple(<<Str("English"), Str("English")>>)>>,
       <<"eo", Tuple(<<Str("Esperanto"), Str("Esperanto")>>)>>,
       <<"es", Tuple(<<Tuple(<<Str("Spanish"), Str(" Castilian")>>), Tuple(<<Str("espa\\xf1ol"), Str("castellano")>>)>>)>>,
       <<"et", Tuple(<<Str("Estonian"), Tuple(<<Str("eesti"), Str("eesti keel")>>)>>)>>,
       <<"eu", Tuple(<<Str("Basque"), Tuple(<<Str("euskara"), Str("euskera")>>)>>)>>,
       <<"fa", Tuple(<<Str("Persian"), Str("\\u0641\\u0627\\u0631\\u0633\\u06cc")>>)>>,
       <<"ff", Tuple(<<Tuple(<<Str("Fula"), Str(" Fulah"), Str(" Pulaar"), Str(" Pular")>>), Tuple(<<Str("Fulfulde"), Str("Pulaar"), Str("Pular")>>)>>)>>,
       <<"fi", Tuple(<<Str("Finnish"), Tuple(<<Str("suomi"), Str("suomen kieli")>>)>>)>>,
       <<"fj", Tuple(<<Str("Fijian"), Str("vosa Vakaviti")>>)>>,
       <<"fo", Tuple(<<Str("Faroese"), Str("f\\xf8royskt")>>)>>,
       <<"fr", Tuple(<<Str("French"), Tuple(<<Str("fran\\xe7ais"), Str("langue fran\\xe7aise")>>)>>)>>,
       <<"fy", Tuple(<<Str("Western Frisian"), Str("Frysk")>>)>>,
       <<"ga", Tuple(<<Str("Irish"), Str("Gaeilge")>>)>>,
       <<"gd", Tuple(<<Tuple(<<Str("Scottish Gaelic"), Str(" Gaelic")>>), Str("G\\xe0idhlig")>>)>>,
       <<"gl", Tuple(<<Str("Galician"), Str("Galego")>>)>>,
       <<"gn", Tuple(<<Str("Guaran\\xed"), Str("Ava\\xf1e'\\u1ebd")>>)>>,
       <<"gu", Tuple(<<Str("Gujarati"), Str("\\u0a97\\u0ac1\\u0a9c\\u0ab0\\u0abe\\u0aa4\\u0ac0")>>)>>,
       <<"gv", Tuple(<<Str("Manx"), Tuple(<<Str("Gaelg"), Str("Gailck")>>)>>)>>,
       <<"ha", Tuple(<<Str("Hausa"), Tuple(<<Str("Hausa"), Str("\\u0647\\u064e\\u0648\\u064f\\u0633\\u064e")>>)>>)>>,
       <<"he", Tuple(<<Str("Hebrew "), Str("\\u05e2\\u05d1\\u05e8\\u05d9\\u05ea")>>)>>,
       <<"hi", Tuple(<<Str("Hindi"), Tuple(<<Str("\\u0939\\u093f\\u0928\\u094d\\u0926\\u0940"), Str("\\u0939\\u093f\\u0902\\u0926\\u0940")>>)>>)>>,
       <<"ho", Tuple(<<Str("Hiri Motu"), Str("Hiri Motu")>>)>>,
       <<"hr", Tuple(<<Str("Croatian"), Str("hrvatski")>>)>>,
       <<"ht", Tuple(<<Tuple(<<Str("Haitian"), Str(" Haitian Creole")>>), Str("Krey\\xf2l ayisyen")>>)>>,
       <<"hu", Tuple(<<Str("Hungarian"), Str("Magyar")>>)>>,
       <<"hy", Tuple(<<Str("Armenian"), Str("\\u0540\\u0561\\u0575\\u0565\\u0580\\u0565\\u0576")>>)>>,
       <<"hz", Tuple(<<Str("Herero"), Str("Otjiherero")>>)>>,
       <<"ia", Tuple(<<Str("Interlingua"), Str("Interlingua")>>)>>,
       <<"id", Tuple(<<Str("Indonesian"), Str("Bahasa Indonesia")>>)>>,
       <<"ie", Tuple(<<Str("Interlingue"), Tuple(<<Str("Originally called Occidental"), Str(" then Interlingue after WWII")>>)>>)>>,
       <<"ig", Tuple(<<Str("Igbo"), Str("As\\u1ee5s\\u1ee5 Igbo")>>)>>,
       <<"ii", Tuple(<<Str("Nuosu"), Str("\\ua188\\ua320\\ua4bf Nuosuhxop")>>)>>,
       <<"ik", Tuple(<<Str("Inupiaq"), Tuple(<<Str("I\\xf1upiaq"), Str("I\\xf1upiatun")>>)>>)>>,
       <<"io", Tuple(<<Str("Ido"), Str("Ido")>>)>>,
       <<"is", Tuple(<<Str("Icelandic"), Str("\\xcdslenska")>>)>>,
       <<"it", Tuple(<<Str("Italian"), Str("Italiano")>>)>>,
       <<"iu", Tuple(<<Str("Inuktitut"), Str("\\u1403\\u14c4\\u1483\\u144e\\u1450\\u1466")>>)>>,
       <<"ja", Tuple(<<Str("Japanese"), Str("\\u65e5\\u672c\\u8a9e ")>>)>>,
       <<"jv", Tuple(<<Str("Javanese"), Str("basa Jawa")>>)>>,
       <<"ka", Tuple(<<Str("Georgian"), Str("\\u10e5\\u10d0\\u10e0\\u10d7\\u10e3\\u10da\\u10d8")>>)>>,
       <<"kg", Tuple(<<Str("Kongo"), Str("KiKongo")>>)>>,
       <<"ki", Tuple(<<Tuple(<<Str("Kikuyu"), Str("Gikuyu")>>), Str("G\\u0129k\\u0169y\\u0169")>>)>>,
       <<"kj", Tuple(<<Tuple(<<Str("Kwanyama"), Str("Kuanyama")>>), Str("Kuanyama")>>)>>,
       <<"kk", Tuple(<<Str("Kazakh"), Str("\\u049a\\u0430\\u0437\\u0430\\u049b \\u0442\\u0456\\u043b\\u0456")>>)>>,
       <<"kl", Tuple(<<Tuple(<<Str("Kalaallisut"), Str("Greenlandic")>>), Tuple(<<Str("kalaallisut"), Str("kalaallit oqaasii")>>)>>)>>,
       <<"km", Tuple(<<Str("Khmer"), Str("\\u1797\\u17b6\\u179f\\u17b6\\u1781\\u17d2\\u1798\\u17c2\\u179a")>>)>>,
       <<"kn", Tuple(<<Str("Kannada"), Str("\\u0c95\\u0ca8\\u0ccd\\u0ca8\\u0ca1")>>)>>,
       <<"ko", Tuple(<<Str("Korean"), Tuple(<<Str("\\ud55c\\uad6d\\uc5b4 "), Str("\\uc870\\uc120\\ub9d0 ")>>)>>)>>,
       <<"kr", Tuple(<<Str("Kanuri"), Str("Kanuri")>>)>>,
       <<"ks", Tuple(<<Str("Kashmiri"), Tuple(<<Str("\\u0915\\u0936\\u094d\\u092e\\u0940\\u0930\\u0940"), Str("\\u0643\\u0634\\u0645\\u064a\\u0631\\u064a\\u200e")>>)>>)>>,
       <<"ku", Tuple(<<Str("Kurdish"), Tuple(<<Str("Kurd\\xee"), Str("\\u0643\\u0648\\u0631\\u062f\\u06cc\\u200e")>>)>>)>>,
       <<"kv", Tuple(<<Str("Komi"), Str("\\u043a\\u043e\\u043c\\u0438 \\u043a\\u044b\\u0432")>>)>>,
       <<"kw", Tuple(<<Str("Cornish"), Str("Kernewek")>>)>>,
       <<"ky", Tuple(<<Tuple(<<Str("Kirghiz"), Str("Kyrgyz")>>), Str("\\u043a\\u044b\\u0440\\u0433\\u044b\\u0437 \\u0442\\u0438\\u043b\\u0438")>>)>>,
       <<"la", Tuple(<<Str("Latin"), Tuple(<<Str("latine"), Str("lingua latina")>>)>>)>>,
       <<"lb", Tuple(<<Tuple(<<Str("Luxembourgish"), Str("Letzeburgesch")>>), Str("L\\xebtzebuergesch")>>)>>,
       <<"lg", Tuple(<<Str("Luganda"), Str("Luganda")>>)>>,
       <<"li", Tuple(<<Tuple(<<Str("Limburgish"), Str("Limburgan"), Str("Limburger")>>), Str("Limburgs")>>)>>,
       <<"ln", Tuple(<<Str("Lingala"), Str("Ling\\xe1la")>>)>>,
       <<"lo", Tuple(<<Str("Lao"), Str("\\u0e9e\\u0eb2\\u0eaa\\u0eb2\\u0ea5\\u0eb2\\u0ea7")>>)>>,
       <<"lt", Tuple(<<Str("Lithuanian"), Str("lietuvi\\u0173 kalba")>>)>>,
       <<"lu", Tuple(<<Str("Luba-Katanga"), Str("Luba-Katanga")>>)>>,
       <<"lv", Tuple(<<Str("Latvian"), Str("latvie\\u0161u valoda")>>)>>,
       <<"mg", Tuple(<<Str("Malagasy"), Str("Malagasy fiteny")>>)>>,
       <<"mh", Tuple(<<Str("Marshallese"), Str("Kajin M\\u0327aje\\u013c")>>)>>,
       <<"mi", Tuple(<<Str("M\\u0101ori"), Str("te reo M\\u0101ori")>>)>>,
       <<"mk", Tuple(<<Str("Macedonian"), Str("\\u043c\\u0430\\u043a\\u0435\\u0434\\u043e\\u043d\\u0441\\u043a\\u0438 \\u0458\\u0430\\u0437\\u0438\\u043a")>>)>>,
       <<"ml", Tuple(<<Str("Malayalam"), Str("\\u0d2e\\u0d32\\u0d2f\\u0d3e\\u0d33\\u0d02")>>)>>,
       <<"mn", Tuple(<<Str("Mongolian"), Str("\\u041c\\u043e\\u043d\\u0433\\u043e\\u043b")>>)>>,
       <<"mr", Tuple(<<Str("Marathi"), Str("\\u092e\\u0930\\u093e\\u0920\\u0940")>>)>>,
       <<"ms", Tuple(<<Str("Malay"), Tuple(<<Str("bahasa Melayu"), Str("\\u0628\\u0647\\u0627\\u0633 \\u0645\\u0644\\u0627\\u064a\\u0648\\u200e")>>)>>)>>,
       <<"mt", Tuple(<<Str("Maltese"), Str("Malti")>>)>>,
       <<"my", Tuple(<<Str("Burmese"), Str("\\u1017\\u1019\\u102c\\u1005\\u102c")>>)>>,
       <<"na", Tuple(<<Str("Nauru"), Str("Ekakair\\u0169 Naoero")>>)>>,
       <<"nb", Tuple(<<Str("Norwegian Bokm\\xe5l"), Str("Norsk bokm\\xe5l")>>)>>,
       <<"nd", Tuple(<<Str("North Ndebele"), Str("isiNdebele")>>)>>,
       <<"ne", Tuple(<<Str("Nepali"), Str("\\u0928\\u0947\\u092a\\u093e\\u0932\\u0940")>>)>>,
       <<"ng", Tuple(<<Str("Ndonga"), Str("Owambo")>>)>>,
       <<"nl", Tuple(<<Str("Dutch"), Tuple(<<Str("Nederlands"), Str("Vlaams")>>)>>)>>,
       <<"nn", Tuple(<<Str("Norwegian Nynorsk"), Str("Norsk nynorsk")>>)>>,
       <<"no", Tuple(<<Str("Norwegian"), Str("Norsk")>>)>>,
       <<"nr", Tuple(<<Str("South Ndebele"), Str("isiNdebele")>>)>>,
       <<"nv", Tuple(<<Tuple(<<Str("Navajo"), Str("Navaho")>>), Tuple(<<Str("Din\\xe9 bizaad"), Str("Din\\xe9k\\u02bceh\\u01f0\\xed")>>)>>)>>,
       <<"ny", Tuple(<<Tuple(<<Str("Chichewa"), Str(" Chewa"), Str(" Nyanja")>>), Tuple(<<Str("chiChe\\u0175a"), Str("chinyanja")>>)>>)>>,
       <<"oc", Tuple(<<Str("Occitan "), Str("Occitan")>>)>>,
       <<"oj", Tuple(<<Str("Ojibwa"), Str("\\u140a\\u14c2\\u1511\\u14c8\\u142f\\u14a7\\u140e\\u14d0")>>)>>,
       <<"om", Tuple(<<Str("Oromo"), Str("Afaan Oromoo")>>)>>,
       <<"or", Tuple(<<Str("Oriya"), Str("\\u0b13\\u0b21\\u0b3c\\u0b3f\\u0b06")>>)>>,
       <<"os", Tuple(<<Tuple(<<Str("Ossetian"), Str("Ossetic")>>), Str("\\u0418\\u0440\\u043e\\u043d \\xe6\\u0432\\u0437\\u0430\\u0433")>>)>>,
       <<"pa", Tuple(<<Tuple(<<Str("Panjabi"), Str("Punjabi")>>), Tuple(<<Str("\\u0a2a\\u0a70\\u0a1c\\u0a3e\\u0a2c\\u0a40"), Str("\\u067e\\u0646\\u062c\\u0627\\u0628\\u06cc\\u200e")>>)>>)>>,
       <<"pi", Tuple(<<Str("P\\u0101li"), Str("\\u092a\\u093e\\u0934\\u093f")>>)>>,
       <<"pl", Tuple(<<Str("Polish"), Str("polski")>>)>>,
       <<"ps", Tuple(<<Tuple(<<Str("Pashto"), Str("Pushto")>>), Str("\\u067e\\u069a\\u062a\\u0648")>>)>>,
       <<"pt", Tuple(<<Str("Portuguese"), Str("Portugu\\xeas")>>)>>,
       <<"qu", Tuple(<<Str("Quechua"), Tuple(<<Str("Runa Simi"), Str("Kichwa")>>)>>)>>,
       <<"rm", Tuple(<<Str("Romansh"), Str("rumantsch grischun")>>)>>,
       <<"rn", Tuple(<<Str("Kirundi"), Str("kiRundi")>>)>>,
       <<"ro", Tuple(<<Tuple(<<Str("Romanian"), Str("Moldavian"), Str("Moldovan")>>), Str("rom\\xe2n\\u0103")>>)>>,
       <<"ru", Tuple(<<Str("Russian"), Str("\\u0420\\u0443\\u0441\\u0441\\u043a\\u0438\\u0439 \\u044f\\u0437\\u044b\\u043a")>>)>>,
       <<"rw", Tuple(<<Str("Kinyarwanda"), Str("Ikinyarwanda")>>)>>,
       <<"sa", Tuple(<<Str("Sanskrit"), Str("\\u0938\\u0902\\u0938\\u094d\\u0915\\u0943\\u0924\\u092e\\u094d")>>)>>,
       <<"sc", Tuple(<<Str("Sardinian"), Str("sardu")>>)>>,
       <<"sd", Tuple(<<Str("Sindhi"), Tuple(<<Str("\\u0938\\u093f\\u0928\\u094d\\u0927\\u0940"), Str("\\u0633\\u0646\\u068c\\u064a\\u060c \\u0633\\u0646\\u062f\\u06be\\u06cc\\u200e")>>)>>)>>,
       <<"se", Tuple(<<Str("Northern Sami"), Str("Davvis\\xe1megiella")>>)>>,
       <<"sg", Tuple(<<Str("Sango"), Str("y\\xe2ng\\xe2 t\\xee s\\xe4ng\\xf6")>>)>>,
       <<"si", Tuple(<<Tuple(<<Str("Sinhala"), Str("Sinhalese")>>), Str("\\u0dc3\\u0dd2\\u0d82\\u0dc4\\u0dbd")>>)>>,
       <<"sk", Tuple(<<Str("Slovak"), Str("sloven\\u010dina")>>)>>,
       <<"sl", Tuple(<<Str("Slovene"), Str("sloven\\u0161\\u010dina")>>)>>,
       <<"sm", Tuple(<<Str("Samoan"), Str("gagana fa'a Samoa")>>)>>,
       <<"sn", Tuple(<<Str("Shona"), Str("chiShona")>>)>>,
       <<"so", Tuple(<<Str("Somali"), Tuple(<<Str("Soomaaliga"), Str("af Soomaali")>>)>>)>>,
       <<"sq", Tuple(<<Str("Albanian"), Str("Shqip")>>)>>,
       <<"sr", Tuple(<<Str("Serbian"), Str("\\u0441\\u0440\\u043f\\u0441\\u043a\\u0438 \\u0458\\u0435\\u0437\\u0438\\u043a")>>)>>,
       <<"ss", Tuple(<<Str("Swati"), Str("SiSwati")>>)>>,
       <<"st", Tuple(<<Str("Southern Sotho"), Str("Sesotho")>>)>>,
       <<"su", Tuple(<<Str("Sundanese"), Str("Basa Sunda")>>)>>,
       <<"sv", Tuple(<<Str("Swedish"), Str("svenska")>>)>>,
       <<"sw", Tuple(<<Str("Swahili"), Str("Kiswahili")>>)>>,
       <<"ta", Tuple(<<Str("Tamil"), Str("\\u0ba4\\u0bae\\u0bbf\\u0bb4\\u0bcd")>>)>>,
       <<"te", Tuple(<<Str("Telugu"), Str("\\u0c24\\u0c46\\u0c32\\u0c41\\u0c17\\u0c41")>>)>>,
       <<"tg", Tuple(<<Str("Tajik"), Tuple(<<Str("\\u0442\\u043e\\u04b7\\u0438\\u043a\\u04e3"), Str("to\\u011fik\\u012b"), Str("\\u062a\\u0627\\u062c\\u06cc\\u06a9\\u06cc\\u200e")>>)>>)>>,
       <<"th", Tuple(<<Str("Thai"), Str("\\u0e44\\u0e17\\u0e22")>>)>>,
       <<"ti", Tuple(<<Str("Tigrinya"), Str("\\u1275\\u130d\\u122d\\u129b")>>)>>,
       <<"tk", Tuple(<<Str("Turkmen"), Tuple(<<Str("T\\xfcrkmen"), Str("\\u0422\\u04af\\u0440\\u043a\\u043c\\u0435\\u043d")>>)>>)>>,
       <<"tl", Tuple(<<Str("Tagalog"), Tuple(<<Str("Wikang Tagalog"), Str("\\u170f\\u1712\\u1703\\u1705\\u1714 \\u1706\\u1704\\u170e\\u1713\\u1704\\u1714")>>)>>)>>,
       <<"tn", Tuple(<<Str("Tswana"), Str("Setswana")>>)>>,
       <<"to", Tuple(<<Str("Tonga "), Str("faka Tonga")>>)>>,
       <<"tr", Tuple(<<Str("Turkish"), Str("T\\xfcrk\\xe7e")>>)>>,
       <<"ts", Tuple(<<Str("Tsonga"), Str("Xitsonga")>>)>>,
       <<"tt", Tuple(<<Str("Tatar"), Tuple(<<Str("\\u0442\\u0430\\u0442\\u0430\\u0440\\u0447\\u0430"), Str("tatar\\xe7a"), Str("\\u062a\\u0627\\u062a\\u0627\\u0631\\u0686\\u0627\\u200e")>>)>>)>>,
       <<"tw", Tuple(<<Str("Twi"), Str("Twi")>>)>>,
       <<"ty", Tuple(<<Str("Tahitian"), Str("Reo M\\u0101\\x60ohi")>>)>>,
       <<"ug", Tuple(<<Tuple(<<Str("Uighur"), Str("Uyghur")>>), Tuple(<<Str("Uy\\u01a3urq\\u0259"), Str("\\u0626\\u06c7\\u064a\\u063a\\u06c7\\u0631\\u0686\\u06d5\\u200e")>>)>>)>>,
       <<"uk", Tuple(<<Str("Ukrainian"), Str("\\u0423\\u043a\\u0440\\u0430\\u0457\\u043d\\u0441\\u044c\\u043a\\u0430")>>)>>,
       <<"ur", Tuple(<<Str("Urdu"), Str("\\u0627\\u0631\\u062f\\u0648")>>)>>,
       <<"uz", Tuple(<<Str("Uzbek"), Tuple(<<Str("O'zbek"), Str("\\u040e\\u0437\\u0431\\u0435\\u043a"), Str("\\u0623\\u06c7\\u0632\\u0628\\u06d0\\u0643\\u200e")>>)>>)>>,
       <<"ve", Tuple(<<Str("Venda"), Str("Tshiven\\u1e13a")>>)>>,
       <<"vi", Tuple(<<Str("Vietnamese"), Str("Ti\\u1ebfng Vi\\u1ec7t")>>)>>,
       <<"vo", Tuple(<<Str("Volap\\xfck"), Str("Volap\\xfck")>>)>>,
       <<"wa", Tuple(<<Str("Walloon"), Str("Walon")>>)>>,
       <<"wo", Tuple(<<Str("Wolof"), Str("Wollof")>>)>>,
       <<"xh", Tuple(<<Str("Xhosa"), Str("isiXhosa")>>)>>,
       <<"yi", Tuple(<<Str("Yiddish"), Str("\\u05d9\\u05d9\\u05b4\\u05d3\\u05d9\\u05e9")>>)>>,
       <<"yo", Tuple(<<Str("Yoruba"), Str("Yor\\xf9b\\xe1")>>)>>,
       <<"za", Tuple(<<Tuple(<<Str("Zhuang"), Str("Chuang")>>), Tuple(<<Str("Sa\\u026f cue\\u014b\\u0185"), Str("Saw cuengh")>>)>>)>>,
       <<"zh", Tuple(<<Str("Chinese"), Tuple(<<Str("\\u4e2d\\u6587 "), Str("\\u6c49\\u8bed"), Str("\\u6f22\\u8a9e")>>)>>)>>,
       <<"zu", Tuple(<<Str("Zulu"), Str("isiZulu")>>)>> >>

\* the registry with the native names of one entry left empty
langs_empty_name ==
    [code \in DOMAIN DictOf(LangsEntries) |->
        IF code = "zu" THEN Tuple(<<Str("Zulu"), Tuple(<<>>)>>)
        ELSE DictOf(LangsEntries)[code]]

\* the embedded registry
langs == DictOf(LangsEntries)

\* the codes of the generated datasets, and a code no dataset holds
SmallCodes == {"en", "fr"}

AbsentCodes == {"xx"}

\* the kinds of name field: a single string, a tuple or a list of strings
Kinds == {"str", "tuple", "list"}

Shapes == {sh \in [kind : Kinds, n : 1..MaxNames] : sh.kind = "str" => sh.n = 1}

\* the i-th name of a generated name field
Name(which, i) == (IF which = ENGLISH THEN "english" ELSE "native") \o ToString(i)

NameSeq(which, n) == [i \in 1..n |-> Str(Name(which, i))]

\* the list objects a dataset may hold: one per name field
Refs == {ENGLISH + 1, NATIVE + 1}

Field(which, sh) ==
    IF sh.kind = "str" THEN Str(Name(which, 1))
    ELSE IF sh.kind = "tuple" THEN Tuple(NameSeq(which, sh.n))
    ELSE List(which + 1)

\* the generated datasets: the record of "en" is the docstring's, the name
\* fields of "fr" have the shapes e and n
Generated(keys, e, n) ==
    [c \in keys |-> IF c = "en" THEN Tuple(<<Str("English"), Str("English")>>)
                    ELSE Tuple(<<Field(ENGLISH, e), Field(NATIVE, n)>>)]

GeneratedHeap(keys, e, n) ==
    [r \in Refs |->
        IF "fr" \in keys /\ r = ENGLISH + 1 /\ e.kind = "list" THEN NameSeq(ENGLISH, e.n)
        ELSE IF "fr" \in keys /\ r = NATIVE + 1 /\ n.kind = "list" THEN NameSeq(NATIVE, n.n)
        ELSE <<>>]

\* the arguments of the calls
CodeArgs == DOMAIN db \cup SmallCodes \cup AbsentCodes

Defaults ==
    { None, Str("unknown"), Str("ab"),
      Tuple(<<Str("x"), Str("y")>>),
      Tuple(<<Str("x"), Tuple(<<Str("y"), Str("z")>>)>>),
      Tuple(<<Str("x"), None>>),
      Tuple(<<Str("x"), Str("y"), Str("z")>>) }

\* a record and a name a caller stores
NewRecord == Tuple(<<Str("Klingon"), Str("tlhIngan Hol")>>)

NewName == Str("X")

NoCopy == [held |-> FALSE, d |-> [c \in {} |-> None]]

Call(op, code, all_names, default) ==
    [op |-> op, code |-> code, all_names |-> all_names, default |-> default]

(***************************************************************************)
(* The state machine: db is the contents of the LangDb and iterorder the   *)
(* order in which the dict enumerates its keys; built is the number of     *)
(* entries of the dataset the LangDb was built from; copy is the dict      *)
(* raw_data() returned, while the caller holds it; call and ret are the    *)
(* latest call and its outcome                                             *)
(***************************************************************************)
\* LangDb(dataset): dict.__init__ stores the dataset's items
Construct(dataset, h) ==
    /\ db = [code \in DOMAIN dataset |-> dataset[code]]
    /\ iterorder \in Orders(DOMAIN dataset)
    /\ heap = h
    /\ built = Cardinality(DOMAIN dataset)
    /\ copy = NoCopy
    /\ call = Call("LangDb", "", FALSE, None)
    /\ ret = Return(None)

\* the LangDb of the class docstring
InitDoctest ==
    Construct(DictOf(DoctestEntries), [r \in Refs |-> <<>>])

\* a LangDb of a generated dataset
InitGenerated ==
    \E keys \in SUBSET SmallCodes, e, n \in Shapes :
        /\ "fr" \notin keys => e.kind = "str" /\ n.kind = "str"
        /\ Construct(Generated(keys, e, n), GeneratedHeap(keys, e, n))

Init == InitDoctest \/ InitGenerated

\* a call that reads the registry and hands back res
Reads(c, res) ==
    /\ call' = c
    /\ ret' = res
    /\ copy' = NoCopy
    /\ UNCHANGED <<db, iterorder, heap, built>>

GetItem ==
    \E code \in CodeArgs :
        Reads(Call("__getitem__", code, FALSE, None), __getitem__(db, heap, code))

\* get() storing the default under a missing key, as dict.setdefault does
Get_setdefault ==
    \E code \in CodeArgs, default \in Defaults :
        /\ call' = Call("get", code, FALSE, default)
        /\ ret' = get(db, heap, code, default)
        /\ db' = [c \in DOMAIN db \cup {code} |-> IF c \in DOMAIN db THEN db[c] ELSE default]
        /\ IF code \in DOMAIN db THEN iterorder' = iterorder
           ELSE iterorder' = Append(iterorder, code)
        /\ copy' = NoCopy
        /\ UNCHANGED <<heap, built>>

Get ==
    \E code \in CodeArgs, default \in Defaults :
        Reads(Call("get", code, FALSE, default), get(db, heap, code, default))

NativeName ==
    \E code \in CodeArgs, all_names \in BOOLEAN :
        Reads(Call("native_name", code, all_names, None),
              native_name(db, heap, code, all_names))

EnglishName ==
    \E code \in CodeArgs, all_names \in BOOLEAN :
        Reads(Call("english_name", code, all_names, None),
              english_name(db, heap, code, all_names))

Contains ==
    \E code \in CodeArgs :
        Reads(Call("__contains__", code, FALSE, None), contains(db, code))

IterItems ==
    /\ Reads(Call("iteritems", "", FALSE, None), iteritems(db, heap, iterorder))

Items ==
    /\ Reads(Call("items", "", FALSE, None), items(db, heap, iterorder))

IterValues ==
    /\ Reads(Call("itervalues", "", FALSE, None), itervalues(db, heap, iterorder))

Values ==
    /\ Reads(Call("values", "", FALSE, None), values(db, heap, iterorder))

Codes ==
    /\ Reads(Call("codes", "", FALSE, None), codes(db, heap, iterorder))

Names ==
    /\ Reads(Call("names", "", FALSE, None), names(db, heap, iterorder))

NativeNames ==
    /\ Reads(Call("native_names", "", FALSE, None), native_names(db, heap, iterorder))

EnglishNames ==
    /\ Reads(Call("english_names", "", FALSE, None), english_names(db, heap, iterorder))

Repr ==
    /\ Reads(Call("__repr__", "", FALSE, None), __repr__(db))

\* the dict raw_data() returns is kept in copy, where the caller works on it
RawData ==
    /\ call' = Call("raw_data", "", FALSE, None)
    /\ ret' = Return(None)
    /\ copy' = [held |-> TRUE, d |-> raw_data(db)]
    /\ UNCHANGED <<db, iterorder, heap, built>>

\* what the caller does to the dict raw_data() returned:
\*   copy[code] = NewRecord
CopySetItem ==
    /\ copy.held
    /\ \E code \in SmallCodes \cup AbsentCodes :
          /\ call' = Call("copy.__setitem__", code, FALSE, None)
          /\ copy' = [copy EXCEPT !.d =
                        [c \in DOMAIN copy.d \cup {code} |->
                            IF c = code THEN NewRecord ELSE copy.d[c]]]
    /\ ret' = Return(None)
    /\ UNCHANGED <<db, iterorder, heap, built>>

\*   del copy[code]
CopyDelItem ==
    /\ copy.held
    /\ \E code \in DOMAIN copy.d :
          /\ call' = Call("copy.__delitem__", code, FALSE, None)
          /\ copy' = [copy EXCEPT !.d = [c \in DOMAIN copy.d \ {code} |-> copy.d[c]]]
    /\ ret' = Return(None)
    /\ UNCHANGED <<db, iterorder, heap, built>>

\*   copy[code][which][i] = NewName, for a name field that is a list
CopyListSetItem ==
    /\ copy.held
    /\ \E code \in DOMAIN copy.d, which \in {ENGLISH, NATIVE} :
          LET name == Subscript(copy.d[code], heap, which)
          IN  /\ name.kind = "return"
              /\ name.val.t = "list"
              /\ \E i \in DOMAIN heap[name.val.ref] :
                    heap' = [heap EXCEPT ![name.val.ref][i] = NewName]
              /\ call' = Call("copy.list.__setitem__", code, FALSE, None)
    /\ ret' = Return(None)
    /\ UNCHANGED <<db, iterorder, built, copy>>

Next ==
    \/ GetItem \/ Get \/ NativeName \/ EnglishName \/ Contains
    \/ IterItems \/ Items \/ IterValues \/ Values
    \/ Codes \/ Names \/ NativeNames \/ EnglishNames
    \/ Repr \/ RawData
    \/ CopySetItem \/ CopyDelItem \/ CopyListSetItem

Spec == Init /\ [][Next]_vars

(***************************************************************************)
(* The mutators LangDb inherits from dict                                  *)
(***************************************************************************)
\*   langs[code] = NewRecord, for a code the dataset does not hold: a new key
\*   may land anywhere in the order
SetItem ==
    /\ \E code \in AbsentCodes :
          /\ call' = Call("__setitem__", code, FALSE, None)
          /\ db' = [c \in DOMAIN db \cup {code} |-> IF c = code THEN NewRecord ELSE db[c]]
          /\ IF code \in DOMAIN db THEN iterorder' = iterorder
             ELSE iterorder' \in Orders(DOMAIN db \cup {code})
    /\ ret' = Return(None)
    /\ copy' = NoCopy
    /\ UNCHANGED <<heap, built>>

\*   del langs[code]
DelItem ==
    /\ \E code \in CodeArgs :
          /\ call' = Call("__delitem__", code, FALSE, None)
          /\ db' = [c \in DOMAIN db \ {code} |-> db[c]]
          /\ iterorder' = SelectSeq(iterorder, LAMBDA c : c # code)
          /\ ret' = IF code \in DOMAIN db THEN Return(None) ELSE Raise("KeyError", Str(code))
    /\ copy' = NoCopy
    /\ UNCHANGED <<heap, built>>

NextDict ==
    \/ GetItem \/ Get \/ NativeName \/ EnglishName \/ Contains
    \/ IterItems \/ Items \/ IterValues \/ Values
    \/ Codes \/ Names \/ NativeNames \/ EnglishNames
    \/ Repr \/ RawData
    \/ SetItem \/ DelItem

SpecDict == InitGenerated /\ [][NextDict]_vars

(***************************************************************************)
(* The embedded registry: the keyed accessors of langs                     *)
(***************************************************************************)
InitLangs ==
    /\ db = langs
    /\ iterorder = [i \in DOMAIN LangsEntries |-> LangsEntries[i][1]]
    /\ heap = [r \in Refs |-> <<>>]
    /\ built = Len(LangsEntries)
    /\ copy = NoCopy
    /\ call = Call("LangDb", "", FALSE, None)
    /\ ret = Return(None)

NextLangs ==
    \/ GetItem \/ NativeName \/ EnglishName \/ Repr \/ RawData

SpecLangs == InitLangs /\ [][NextLangs]_vars

(***************************************************************************)
(* Properties                                                              *)
(***************************************************************************)
\* the latest call named a code the registry does not hold / holds
Absent == call.code \notin DOMAIN db

Present == call.code \in DOMAIN db

\* C1: for a code that is not a key of the registry, get(code, default)
\* returns exactly the default, whatever the default is, and does not fail
C1_GetReturnsDefault ==
    (call.op = "get" /\ Absent) => ret = Return(call.default)

\* C2: for a code that is not a key of the registry, item access,
\* native_name and english_name (with all_names false or true) raise
\* KeyError carrying the code, and return nothing
C2_AbsentRaisesKeyError ==
    (call.op \in {"__getitem__", "native_name", "english_name"} /\ Absent)
        => ret = Raise("KeyError", Str(call.code))

C2_Witness ==
    /\ call.op = "english_name"
    /\ call.all_names
    /\ Absent
    /\ ret.kind = "raise"

\* the first element of a returned sequence
First(o) == Subscript(o.val, heap, 0)

\* the field of the latest call's record that the call asked for
Which == IF call.op = "english_name" THEN ENGLISH ELSE NATIVE

\* C3: for a code the registry holds, item access and get(code, default)
\* both equal the first element of native_name(code, all_names=True),
\* whether the native field is a single string or a sequence of strings
C3_LookupIsFirstNative ==
    (call.op \in {"__getitem__", "get"} /\ Present)
        => /\ native_name(db, heap, call.code, TRUE).kind = "return"
           /\ ret = First(native_name(db, heap, call.code, TRUE))

\* C4: for a code the registry holds, native_name(code) equals
\* native_name(code, all_names=True)[0], and likewise english_name
C4_PrimaryIsFirstOfAll ==
    (call.op \in {"native_name", "english_name"} /\ ~call.all_names /\ Present)
        => /\ _some_name(db, heap, call.code, Which, TRUE).kind = "return"
           /\ ret = First(_some_name(db, heap, call.code, Which, TRUE))

\* the name strings of a name field as recorded, in order
Recorded(field, h) == IF field.t = "str" THEN <<field>> ELSE Elems(field, h)

\* C5: with all_names=True, native_name and english_name return exactly the
\* ordered sequence of the record's name strings, of length one for a
\* field that is a single string, for fields that are a string, a tuple or
\* a list of strings
C5_AllNamesAsRecorded ==
    (call.op \in {"native_name", "english_name"} /\ call.all_names /\ Present)
        => /\ ret.kind = "return"
           /\ ret.val.t = "tuple"
           /\ Elems(ret.val, heap) = Recorded(db[call.code].items[Which + 1], heap)

\* what callers can observe of the registry: its key set and enumeration,
\* the outcome of every keyed call, and the raw data, lists by contents
Observe(d, o, h) ==
    [ keys |-> DOMAIN d,
      codes |-> codes(d, h, o),
      items |-> DeepOutcome(items(d, h, o), h),
      raw |-> [c \in DOMAIN d |-> Deep(d[c], h)],
      keyed |-> [c \in DOMAIN d \cup SmallCodes \cup AbsentCodes |->
                    << DeepOutcome(__getitem__(d, h, c), h),
                       DeepOutcome(get(d, h, c, None), h),
                       DeepOutcome(native_name(d, h, c, FALSE), h),
                       DeepOutcome(native_name(d, h, c, TRUE), h),
                       DeepOutcome(english_name(d, h, c, FALSE), h),
                       DeepOutcome(english_name(d, h, c, TRUE), h),
                       contains(d, c) >>] ]

SameRegistry == Observe(db', iterorder', heap') = Observe(db, iterorder, heap)

\* the contents of the registry are what they were
SameContents == UNCHANGED <<db, iterorder, heap>>

\* the operations on the dict raw_data() returned
CopyOps == {"copy.__setitem__", "copy.__delitem__", "copy.list.__setitem__"}

\* the operations the class LangDb defines
LangDbOps ==
    {"__getitem__", "get", "iteritems", "items", "itervalues", "values",
     "codes", "names", "native_names", "english_names", "native_name",
     "english_name", "raw_data", "__repr__"}

\* C6: raw_data() returns the registry's data under the registry's key set,
\* as a deep, independent copy: whatever a caller does to the returned dict,
\* to a record or to a name list reachable from it, every later result of
\* the registry is what it was before
C6_RawDataIndependent ==
    [][/\ call'.op = "raw_data" =>
            /\ DOMAIN copy'.d = DOMAIN db
            /\ \A c \in DOMAIN db : Deep(copy'.d[c], heap') = Deep(db[c], heap)
       /\ call'.op \in CopyOps => SameRegistry]_vars

\* C7: no operation available on the registry object changes its contents
C7_NeverMutated == [][call'.op \notin CopyOps => SameContents]_vars

\* C7 as amended: the operations LangDb defines leave the contents as they
\* are (the mutators it inherits from dict do not)
C7_LangDbOpsReadOnly == [][call'.op \in LangDbOps => SameContents]_vars

C7_Witness ==
    /\ call.op = "get"
    /\ Absent
    /\ ret = Return(call.default)

C9_EnumerationAgreesWithLookup ==
    /\ call.op \in {"items", "iteritems"} =>
          /\ ret.kind = "return"
          /\ Len(ret.val.items) = Cardinality(DOMAIN db)
          /\ \A c \in DOMAIN db :
                /\ __getitem__(db, heap, c).kind = "return"
                /\ Cardinality({i \in DOMAIN ret.val.items :
                       ret.val.items[i]
                           = Tuple(<<Str(c), __getitem__(db, heap, c).val>>)}) = 1
          /\ \A i \in DOMAIN ret.val.items : ret.val.items[i].items[2].t = "str"
    /\ call.op \in {"names", "values", "itervalues"} =>
          /\ ret.kind = "return"
          /\ Len(ret.val.items) = Len(codes(db, heap, iterorder).val.items)
          /\ \A i \in DOMAIN ret.val.items :
                /\ ret.val.items[i].t = "str"
                /\ Return(ret.val.items[i])
                       = __getitem__(db, heap, codes(db, heap, iterorder).val.items[i].s)

C9_Witness ==
    /\ call.op \in {"names", "values", "itervalues"}
    /\ ret.kind = "return"
    /\ Len(ret.val.items) >= 2
    /\ \E c \in DOMAIN db : db[c].items[NATIVE + 1].t # "str"

\* C10: in the embedded registry the keys are unique, and for every code
\* both native_name and english_name with all_names=True return a
\* non-empty sequence of strings, so that no accessor call on a code the
\* registry holds fails
C10_EmbeddedDataInvariant ==
    /\ Cardinality(DOMAIN db) = Len(LangsEntries)
    /\ (call.op \in {"native_name", "english_name"} /\ call.all_names /\ Present)
          => /\ ret.kind = "return"
             /\ ret.val.t = "tuple"
             /\ Len(ret.val.items) >= 1
             /\ \A i \in DOMAIN ret.val.items : ret.val.items[i].t = "str"
    /\ (call.op \in {"native_name", "english_name", "__getitem__"}
            /\ ~call.all_names /\ Present)
          => /\ ret.kind = "return"
             /\ ret.val.t = "str"

C10_Witness ==
    /\ call.op = "native_name"
    /\ call.all_names
    /\ call.code = "zh"
    /\ ret.kind = "return"
    /\ Len(ret.val.items) = 3

(***************************************************************************)
(* Malformed datasets: LangDb defines no __init__, so dict.__init__ stores *)
(* whatever it is given                                                    *)
(***************************************************************************)
\* the shapes of a name field that holds no name: an empty tuple, an empty
\* list, or None
EmptyShapes ==
    {[kind |-> "tuple", n |-> 0], [kind |-> "list", n |-> 0], [kind |-> "None", n |-> 0]}

MalformedField(which, sh) ==
    IF sh.kind = "None" THEN None ELSE Field(which, sh)

\* a key that is not a two-letter lowercase code
BadCodes == {"ENG"}

\* a dataset with the record of "en" or of a bad code as in the docstring,
\* and the name fields of "fr" of the shapes e and n
MalformedDataset(keys, e, n) ==
    [c \in keys |-> IF c = "fr"
                    THEN Tuple(<<MalformedField(ENGLISH, e), MalformedField(NATIVE, n)>>)
                    ELSE Tuple(<<Str("English"), Str("English")>>)]

\* a dataset whose record of "fr" lacks the native field altogether
ShortDataset(keys) ==
    [c \in keys |-> IF c = "fr" THEN Tuple(<<Str(Name(ENGLISH, 1))>>)
                    ELSE Tuple(<<Str("English"), Str("English")>>)]

\* LangDb(dataset) for a dataset with a malformed entry
InitMalformed ==
    \/ \E keys \in {{"fr"}, {"en", "fr"}}, e, n \in Shapes \cup EmptyShapes :
          /\ e \in EmptyShapes \/ n \in EmptyShapes
          /\ Construct(MalformedDataset(keys, e, n), GeneratedHeap(keys, e, n))
    \/ \E keys \in {{"fr"}, {"en", "fr"}} :
          Construct(ShortDataset(keys), [r \in Refs |-> <<>>])
    \/ \E code \in BadCodes, keys \in SUBSET {"en"} :
          Construct(MalformedDataset(keys \cup {code}, [kind |-> "str", n |-> 1],
                                     [kind |-> "str", n |-> 1]),
                    [r \in Refs |-> <<>>])

SpecMalformed == InitMalformed /\ [][Next]_vars

\* the validation the registry's dataset is said to pass: every key is a
\* two-letter lowercase code and every record has a non-empty English and a
\* non-empty native name field of strings
Lowercase ==
    {"a", "b", "c", "d", "e", "f", "g", "h", "i", "j", "k", "l", "m",
     "n", "o", "p", "q", "r", "s", "t", "u", "v", "w", "x", "y", "z"}

WellFormedCode(code) ==
    /\ Len(code) = 2
    /\ \A i \in 1..2 : SubSeq(code, i, i) \in Lowercase

WellFormedField(field, h) ==
    \/ field.t = "str"
    \/ /\ field.t \in {"tuple", "list"}
       /\ Len(Elems(field, h)) >= 1
       /\ \A i \in DOMAIN Elems(field, h) : Elems(field, h)[i].t = "str"

WellFormedRecord(record, h) ==
    /\ record.t = "tuple"
    /\ Len(record.items) = 2
    /\ \A i \in 1..2 : WellFormedField(record.items[i], h)

WellFormed(d, h) ==
    \A code \in DOMAIN d : WellFormedCode(code) /\ WellFormedRecord(d[code], h)

\* C11: the dataset is validated at construction, which fails for a dataset
\* with a malformed entry: every call is served by a registry whose data is
\* well formed, no malformed record surfaces as the error of a call, and
\* KeyError is the only error a call produces
C11_ValidatedAtConstruction ==
    call.op \in LangDbOps \cup {"__contains__"} =>
        /\ WellFormed(db, heap)
        /\ ret.kind = "raise" => ret.exc = "KeyError"

====
